---- MODULE Spec2Model ----
(***************************************************************************)
(* RelayNetwork.create(fetch, subscribe?): the network layer built from a  *)
(* fetch function.  One behaviour follows one call made on the layer       *)
(* (request or requestStream) until nothing more can happen: the promise   *)
(* reactions, the poll timer, the caller's dispose() and the payloads of a *)
(* subscription are the steps.                                             *)
(*                                                                         *)
(* A JavaScript value that may be null or undefined is a sequence of       *)
(* length at most one: <<>> is null/undefined, <<v>> is the value v.       *)
(***************************************************************************)
EXTENDS Integers, Sequences, FiniteSets, TLC

VARIABLES
    subscribe,    \* create(): was a subscribe function supplied
    phase,        \* which call was made: idle, request, oneshot, poll, subscription, threw
    operation,    \* the call's operation (ConcreteBatch)
    cacheConfig,  \* the call's cacheConfig argument
    observer,     \* the call's observer: each handler absent, returns or throws
    response,     \* what fetch returned last
    result,       \* what request() returned to its caller
    fetchPromise, \* the promise of a 'promise' response, settled by the fetch function
    promise,      \* the promise the reactions of the call are attached to
    isDisposed,   \* the closed-over flag of the handle
    timeout,      \* doFetchWithPolling: the id of the last timer, 0 for null
    timers,       \* the pending setTimeout(poll, pollInterval) timers (ids)
    rethrows,     \* the pending setTimeout(() => { throw err }, 0) timers
    fetchArgs,    \* the cacheConfig of every call of fetch, in order
    log,          \* the observer's handlers invoked so far, in order
    raised,       \* the exceptions that surfaced: where and what
    handle,       \* did requestStream return a handle
    disposeCalls, \* how many times the caller called dispose()
    emitted,      \* the payloads the subscribe function has pushed, in order
    inflight      \* the stream's requests sent whose completion handler has not run

vars == <<subscribe, phase, operation, cacheConfig, observer, response, result,
          fetchPromise, promise, isDisposed, timeout, timers, rethrows,
          fetchArgs, log, raised, handle, disposeCalls, emitted, inflight>>

\* Bounds of the model.
MaxFetch == 2
MaxDispose == 2
MaxEmit == 2

----------------------------------------------------------------------------
\* The values the call and the fetch function exchange.

ROOT_ID == "client:root"

variables == [id |-> 1]

OperationKinds == {"query", "subscription"}

Operation(k) == [name |-> "Q", query |-> [operation |-> k]]

PollIntervals == {-1, 0, 1}

CacheConfigs ==
    {<<>>} \cup
    { <<[poll |-> p, force |-> f]>> :
        p \in {<<>>} \cup {<<i>> : i \in PollIntervals},
        f \in {<<>>, <<FALSE>>} }

Behaviours == {"absent", "returns", "throws"}

Observers ==
    [onNext : Behaviours, onError : Behaviours, onCompleted : {"absent", "returns"}]

\* The payloads the n-th call of fetch can answer with.  ok = FALSE marks data
\* that normalizeRelayPayload rejects.
RawPayloads(n) ==
    { [data |-> d, errors |-> e] :
        d \in {<<>>, <<[id |-> n, ok |-> TRUE]>>, <<[id |-> n, ok |-> FALSE]>>},
        e \in {<<>>, << <<"boom">> >>} }

FetchError(n) == [name |-> "FetchError", id |-> n]

Responses(n) ==
    { [kind |-> "data", data |-> d] :
        d \in {<<>>} \cup {<<p>> : p \in RawPayloads(n)} }
    \cup { [kind |-> "error", error |-> FetchError(n)] }
    \cup { [kind |-> "promise"], [kind |-> "socket"] }

NoResponse == [kind |-> "none"]

\* How the promise of the n-th call settles.
Settlements(n) ==
    { [state |-> "fulfilled", value |-> d] :
        d \in {<<>>} \cup {<<p>> : p \in RawPayloads(n)} }
    \cup { [state |-> "rejected", value |-> <<FetchError(n)>>] }

Return(v) == [threw |-> FALSE, value |-> v]
Throw(e) == [threw |-> TRUE, error |-> e]

Invariant(msg) == [name |-> "Invariant Violation", message |-> msg]
TypeError == [name |-> "TypeError"]
ObserverError(cb) == [name |-> "ObserverError", from |-> cb]

----------------------------------------------------------------------------
\* The Normalizer: normalizeRelayPayload(selector, data, errors, options).
normalizeRelayPayload(selector, data, errors, options) ==
    IF data.ok
    THEN Return([source |-> data, errors |-> errors, selector |-> selector])
    ELSE Throw([name |-> "NormalizerError", id |-> data.id])

\* normalizePayload whose error never lists the messages of the server.
normalizePayloadNoMessages(op, vs, payload) ==
    IF payload = <<>>
    THEN Throw(TypeError)
    ELSE IF payload[1].data # <<>>
    THEN normalizeRelayPayload(
             [dataID |-> ROOT_ID, node |-> op.query, variables |-> vs],
             payload[1].data[1], payload[1].errors,
             [handleStrippedNulls |-> TRUE])
    ELSE Throw([name |-> "RelayNetwork",
                operationName |-> op.name,
                messages |-> <<"(No errors)">>,
                source |-> [errors |-> payload[1].errors,
                            operation |-> op, variables |-> vs]])

\* normalizePayload(operation, variables, payload)
normalizePayload(op, vs, payload) ==
    IF payload = <<>>
    THEN Throw(TypeError)   \* const {data, errors} = payload, with payload null
    ELSE IF payload[1].data # <<>>
    THEN normalizeRelayPayload(
             [dataID |-> ROOT_ID, node |-> op.query, variables |-> vs],
             payload[1].data[1], payload[1].errors,
             [handleStrippedNulls |-> TRUE])
    ELSE Throw([name |-> "RelayNetwork",
                operationName |-> op.name,
                messages |-> IF payload[1].errors # <<>>
                             THEN payload[1].errors[1]
                             ELSE <<"(No errors)">>,
                source |-> [errors |-> payload[1].errors,
                            operation |-> op, variables |-> vs]])

\* request: const onSuccess = payload => normalizePayload(operation, variables, payload)
onSuccess(op, vs, payload) == normalizePayload(op, vs, payload)

\* request that hands the data of a 'data' response back as it came.
requestRaw(op, vs, resp) ==
    CASE resp.kind = "promise" -> Return([kind |-> "promise"])
      [] resp.kind = "data" -> Return([kind |-> "data", data |-> resp.data])
      [] resp.kind = "error" -> Return(resp)
      [] OTHER -> Throw(Invariant("RelayNetwork: unsupported response kind"))

\* request(operation, variables, ...), given what fetch returned: the envelope
\* it returns or the exception it throws.  The promise of a 'promise' envelope
\* is the variable promise, derived from fetchPromise by then(onSuccess).
request(op, vs, resp) ==
    CASE resp.kind = "promise" -> Return([kind |-> "promise"])
      [] resp.kind = "data" ->
            IF resp.data # <<>>
            THEN LET r == onSuccess(op, vs, resp.data)
                 IN  IF r.threw THEN r
                     ELSE Return([kind |-> "data", data |-> <<r.value>>])
            ELSE Return([kind |-> "data", data |-> <<>>])
      [] resp.kind = "error" -> Return(resp)
      [] OTHER -> Throw(Invariant("RelayNetwork: unsupported response kind"))

----------------------------------------------------------------------------
\* Promises and the observer.

NoPromise ==
    [state |-> "none", value |-> <<>>, onFulfilled |-> "none",
     onRejected |-> "none", derived |-> FALSE, reacted |-> FALSE]

Pending(f, r, d) ==
    [state |-> "pending", value |-> <<>>, onFulfilled |-> f,
     onRejected |-> r, derived |-> d, reacted |-> FALSE]

Settled(s, v, f, r) ==
    [state |-> s, value |-> v, onFulfilled |-> f,
     onRejected |-> r, derived |-> FALSE, reacted |-> FALSE]

\* handler && handler(arg): the log after the call.  tick is the number of
\* calls of fetch made so far.
Invoke(l, cb, arg) ==
    IF observer[cb] = "absent" THEN l
    ELSE Append(l, [cb |-> cb, arg |-> arg, tick |-> Len(fetchArgs)])

Throws(cb) == observer[cb] = "throws"

Raise(where, e) == Append(raised, [where |-> where, error |-> e])

----------------------------------------------------------------------------
Init ==
    /\ subscribe \in BOOLEAN
    /\ phase = "idle"
    /\ operation = Operation("query")
    /\ cacheConfig = <<>>
    /\ observer = [onNext |-> "absent", onError |-> "absent", onCompleted |-> "absent"]
    /\ response = NoResponse
    /\ result = Return(NoResponse)
    /\ fetchPromise = NoPromise
    /\ promise = NoPromise
    /\ isDisposed = FALSE
    /\ timeout = 0
    /\ timers = {}
    /\ rethrows = <<>>
    /\ fetchArgs = <<>>
    /\ log = <<>>
    /\ raised = <<>>
    /\ handle = FALSE
    /\ disposeCalls = 0
    /\ emitted = <<>>
    /\ inflight = 0

----------------------------------------------------------------------------
\* request(operation, variables, cacheConfig): one call of fetch, and the
\* envelope handed back.
Request(k, cc, resp) ==
    /\ phase = "idle"
    /\ phase' = "request"
    /\ operation' = Operation(k)
    /\ cacheConfig' = cc
    /\ fetchArgs' = Append(fetchArgs, cc)
    /\ response' = resp
    /\ result' = request(Operation(k), variables, resp)
    /\ IF resp.kind = "promise"
       THEN /\ fetchPromise' = Pending("onSuccess", "none", FALSE)
            /\ promise' = Pending("none", "none", TRUE)
       ELSE UNCHANGED <<fetchPromise, promise>>
    /\ UNCHANGED <<subscribe, observer, isDisposed, timeout, timers, rethrows,
                   log, raised, handle, disposeCalls, emitted, inflight>>

\* The fetch function settles the promise it returned.  The handlers of a
\* one-shot stream are attached to that very promise.
SettleFetchPromise(s) ==
    /\ fetchPromise.state = "pending"
    /\ fetchPromise' = [fetchPromise EXCEPT !.state = s.state, !.value = s.value]
    /\ promise' = IF promise.derived THEN promise
                  ELSE [promise EXCEPT !.state = s.state, !.value = s.value]
    /\ UNCHANGED <<subscribe, phase, operation, cacheConfig, observer, response,
                   result, isDisposed, timeout, timers, rethrows, fetchArgs, log,
                   raised, handle, disposeCalls, emitted, inflight>>

\* request: response.promise.then(onSuccess), the reaction that settles the
\* promise of the envelope request() returned.
ThenOnSuccess ==
    /\ promise.derived
    /\ promise.state = "pending"
    /\ fetchPromise.state \in {"fulfilled", "rejected"}
    /\ ~fetchPromise.reacted
    /\ fetchPromise' = [fetchPromise EXCEPT !.reacted = TRUE]
    /\ promise' =
        IF fetchPromise.state = "rejected"
        THEN [promise EXCEPT !.state = "rejected", !.value = fetchPromise.value]
        ELSE LET r == onSuccess(operation, variables, fetchPromise.value)
             IN  IF r.threw
                 THEN [promise EXCEPT !.state = "rejected", !.value = <<r.error>>]
                 ELSE [promise EXCEPT !.state = "fulfilled", !.value = <<r.value>>]
    /\ UNCHANGED <<subscribe, phase, operation, cacheConfig, observer, response,
                   result, isDisposed, timeout, timers, rethrows, fetchArgs, log,
                   raised, handle, disposeCalls, emitted, inflight>>

----------------------------------------------------------------------------
\* requestStream, the one-shot driver.

\* onRequestSuccess without its isDisposed check.
onRequestSuccessUnchecked(payload) ==
    LET r == normalizePayload(operation, variables, payload)
    IN  IF r.threw
        THEN /\ log' = Invoke(log, "onError", <<r.error>>)
             /\ raised' = IF Throws("onError")
                          THEN Raise("unhandledRejection", ObserverError("onError"))
                          ELSE raised
        ELSE IF Throws("onNext")
        THEN /\ log' = Invoke(log, "onNext", <<r.value>>)
             /\ raised' = Raise("unhandledRejection", ObserverError("onNext"))
        ELSE /\ log' = Invoke(Invoke(log, "onNext", <<r.value>>), "onCompleted", <<>>)
             /\ raised' = raised

\* onRequestSuccess whose catch block does not return.
onRequestSuccessFallThrough(payload) ==
    IF isDisposed
    THEN UNCHANGED <<log, raised>>
    ELSE LET r == normalizePayload(operation, variables, payload)
             l == IF r.threw THEN Invoke(log, "onError", <<r.error>>) ELSE log
             v == IF r.threw THEN <<>> ELSE <<r.value>>
         IN  /\ log' = Invoke(Invoke(l, "onNext", v), "onCompleted", <<>>)
             /\ raised' = raised

\* const onRequestSuccess = payload => {...} of requestStream
onRequestSuccess(payload) ==
    IF isDisposed
    THEN UNCHANGED <<log, raised>>
    ELSE LET r == normalizePayload(operation, variables, payload)
         IN  IF r.threw
             THEN /\ log' = Invoke(log, "onError", <<r.error>>)
                  /\ raised' = IF Throws("onError")
                               THEN Raise("unhandledRejection", ObserverError("onError"))
                               ELSE raised
             ELSE IF Throws("onNext")
             THEN /\ log' = Invoke(log, "onNext", <<r.value>>)
                  /\ raised' = Raise("unhandledRejection", ObserverError("onNext"))
             ELSE /\ log' = Invoke(Invoke(log, "onNext", <<r.value>>), "onCompleted", <<>>)
                  /\ raised' = raised

\* const onRequestError = error => {...} of requestStream
onRequestError(error) ==
    IF isDisposed
    THEN UNCHANGED <<log, raised>>
    ELSE /\ log' = Invoke(log, "onError", error)
         /\ raised' = IF Throws("onError")
                      THEN Raise("unhandledRejection", ObserverError("onError"))
                      ELSE raised

\* The promise each case of the switch on requestResponse.kind leaves the
\* handlers attached to: <<promise, fetchPromise>>.
OneShotDispatch(resp) ==
    CASE resp.kind = "data" ->
            \* Promise.resolve(requestResponse.data).then(onRequestSuccess)
            <<Settled("fulfilled", resp.data, "onRequestSuccess", "none"), NoPromise>>
      [] resp.kind = "error" ->
            \* Promise.reject(requestResponse.error).then(onRequestError)
            <<Settled("rejected", <<resp.error>>, "onRequestError", "none"), NoPromise>>
      [] resp.kind = "promise" ->
            \* requestResponse.promise.then(onRequestSuccess, onRequestError)
            <<Pending("onRequestSuccess", "onRequestError", FALSE),
              Pending("onRequestSuccess", "onRequestError", FALSE)>>
      [] OTHER -> <<NoPromise, NoPromise>>

\* The one-shot branch that hands a synchronous Data payload to onNext inside
\* the call, before the handle is returned.
RequestStreamOneShotSync(op, cc, resp) ==
    /\ phase' = "oneshot"
    /\ fetchArgs' = Append(fetchArgs, cc)
    /\ response' = resp
    /\ promise' = OneShotDispatch(resp)[1]
    /\ fetchPromise' = OneShotDispatch(resp)[2]
    /\ isDisposed' = FALSE
    /\ handle' = TRUE
    /\ inflight' = IF resp.kind \in {"data", "error", "promise"} THEN 1 ELSE 0
    /\ log' = IF resp.kind = "data" /\ observer'.onNext # "absent"
              THEN Append(log, [cb |-> "onNext", arg |-> resp.data,
                                tick |-> Len(fetchArgs) + 1])
              ELSE log
    /\ UNCHANGED <<timeout, timers, raised>>

\* requestStream, the one-shot branch: const requestResponse = fetch(...), the
\* switch on its kind, and return {dispose}. No handler runs inside the call.
RequestStreamOneShot(op, cc, resp) ==
    /\ phase' = "oneshot"
    /\ fetchArgs' = Append(fetchArgs, cc)
    /\ response' = resp
    /\ promise' = OneShotDispatch(resp)[1]
    /\ fetchPromise' = OneShotDispatch(resp)[2]
    /\ isDisposed' = FALSE
    /\ handle' = TRUE
    /\ inflight' = IF resp.kind \in {"data", "error", "promise"} THEN 1 ELSE 0
    /\ UNCHANGED <<timeout, timers, raised, log>>

\* The reaction job of the one-shot stream's promise.
OneShotReact ==
    /\ phase = "oneshot"
    /\ promise.state \in {"fulfilled", "rejected"}
    /\ ~promise.reacted
    /\ promise' = [promise EXCEPT !.reacted = TRUE]
    /\ CASE promise.state = "fulfilled" /\ promise.onFulfilled = "onRequestSuccess" ->
                onRequestSuccess(promise.value)
         [] promise.state = "fulfilled" /\ promise.onFulfilled = "onRequestError" ->
                onRequestError(promise.value)
         [] promise.state = "rejected" /\ promise.onRejected = "onRequestError" ->
                onRequestError(promise.value)
         [] OTHER ->
                \* a rejection with no rejection handler passes to the derived promise
                /\ raised' = Raise("unhandledRejection", promise.value[1])
                /\ log' = log
    /\ inflight' = 0
    /\ UNCHANGED <<subscribe, phase, operation, cacheConfig, observer, response,
                   result, fetchPromise, isDisposed, timeout, timers, rethrows,
                   fetchArgs, handle, disposeCalls, emitted>>

\* dispose() of the handle of a one-shot stream, called by the caller.
DisposeOneShot ==
    /\ phase = "oneshot"
    /\ handle
    /\ disposeCalls < MaxDispose
    /\ disposeCalls' = disposeCalls + 1
    /\ isDisposed' = TRUE
    /\ UNCHANGED <<subscribe, phase, operation, cacheConfig, observer, response,
                   result, fetchPromise, promise, timeout, timers, rethrows,
                   fetchArgs, log, raised, handle, emitted, inflight>>

----------------------------------------------------------------------------
\* doFetchWithPolling, the polling driver.

\* dispose of doFetchWithPolling without its if (!isDisposed).
disposeUnguarded ==
    /\ isDisposed' = TRUE
    /\ timers' = IF timeout # 0 THEN timers \ {timeout} ELSE timers

\* const dispose = () => {...} of doFetchWithPolling
dispose ==
    /\ isDisposed' = TRUE
    /\ timers' = IF ~isDisposed /\ timeout # 0 THEN timers \ {timeout} ELSE timers

\* poll: request(operation, variables, {force: true})
PollCacheConfig == <<[poll |-> <<>>, force |-> <<TRUE>>]>>

\* The promise poll() builds from the envelope of request().
PollPromise(envelope) ==
    CASE envelope.kind = "data" ->
            Settled("fulfilled", envelope.data, "onRequestSuccess", "onRequestError")
      [] envelope.kind = "error" ->
            Settled("rejected", <<envelope.error>>, "onRequestSuccess", "onRequestError")
      [] envelope.kind = "promise" ->
            Pending("onRequestSuccess", "onRequestError", TRUE)
      [] OTHER -> NoPromise

\* function poll() of doFetchWithPolling: one tick, run from requestStream
\* (the first) or from the timer (the later ones).
poll(op, resp, where) ==
    /\ fetchArgs' = Append(fetchArgs, PollCacheConfig)
    /\ response' = resp
    /\ LET r == request(op, variables, resp)
       IN  IF r.threw
           THEN /\ raised' = Raise(where, r.error)
                /\ promise' = NoPromise
                /\ fetchPromise' = NoPromise
                /\ inflight' = inflight
           ELSE /\ raised' = raised
                /\ inflight' = inflight + 1
                /\ promise' = PollPromise(r.value)
                /\ fetchPromise' = IF r.value.kind = "promise"
                                   THEN Pending("onSuccess", "none", FALSE)
                                   ELSE NoPromise

\* doFetchWithPolling whose invariant lets a pollInterval of 0 through.
doFetchWithPollingNonNegative(op, pollInterval, resp) ==
    IF ~(pollInterval >= 0)
    THEN /\ raised' = Raise("requestStream",
                 Invariant("RelayNetwork: Expected pollInterval to be positive"))
         /\ phase' = "threw"
         /\ handle' = FALSE
         /\ UNCHANGED <<fetchArgs, response, promise, fetchPromise, isDisposed,
                        timeout, timers, inflight, log>>
    ELSE /\ isDisposed' = FALSE
         /\ timeout' = 0
         /\ timers' = timers
         /\ log' = log
         /\ poll(op, resp, "requestStream")
         /\ handle' = ~request(op, variables, resp).threw
         /\ phase' = IF request(op, variables, resp).threw THEN "threw" ELSE "poll"

\* doFetchWithPolling(request, operation, variables, observer, pollInterval)
doFetchWithPolling(op, pollInterval, resp) ==
    IF ~(pollInterval > 0)
    THEN /\ raised' = Raise("requestStream",
                 Invariant("RelayNetwork: Expected pollInterval to be positive"))
         /\ phase' = "threw"
         /\ handle' = FALSE
         /\ UNCHANGED <<fetchArgs, response, promise, fetchPromise, isDisposed,
                        timeout, timers, inflight, log>>
    ELSE /\ isDisposed' = FALSE
         /\ timeout' = 0
         /\ timers' = timers
         /\ log' = log
         /\ poll(op, resp, "requestStream")
         /\ handle' = ~request(op, variables, resp).threw
         /\ phase' = IF request(op, variables, resp).threw THEN "threw" ELSE "poll"

\* onRequestSuccess of poll that delivers and sets no timer.
pollOnRequestSuccessOnce(payload) ==
    /\ log' = Invoke(log, "onNext", payload)
    /\ rethrows' = IF Throws("onNext")
                   THEN Append(rethrows, ObserverError("onNext"))
                   ELSE rethrows
    /\ UNCHANGED <<timeout, timers, isDisposed>>

\* onRequestSuccess of poll that sets the timer before it calls onNext.
pollOnRequestSuccessTimerFirst(payload) ==
    /\ log' = Invoke(log, "onNext", payload)
    /\ timeout' = Len(fetchArgs)
    /\ timers' = timers \cup {Len(fetchArgs)}
    /\ rethrows' = IF Throws("onNext")
                   THEN Append(rethrows, ObserverError("onNext"))
                   ELSE rethrows
    /\ UNCHANGED isDisposed

\* const onRequestSuccess = payload => {...} of poll
pollOnRequestSuccess(payload) ==
    /\ log' = Invoke(log, "onNext", payload)
    /\ IF Throws("onNext")
       THEN /\ rethrows' = Append(rethrows, ObserverError("onNext"))
            /\ UNCHANGED <<timeout, timers>>
       ELSE \* timeout = setTimeout(poll, pollInterval)
            /\ timeout' = Len(fetchArgs)
            /\ timers' = timers \cup {Len(fetchArgs)}
            /\ rethrows' = rethrows
    /\ UNCHANGED isDisposed

\* onRequestError of poll without its call of dispose().
pollOnRequestErrorNoDispose(error) ==
    /\ log' = Invoke(log, "onError", error)
    /\ rethrows' = IF Throws("onError")
                   THEN Append(rethrows, ObserverError("onError"))
                   ELSE rethrows
    /\ UNCHANGED <<timeout, isDisposed, timers>>

\* const onRequestError = error => {...} of poll
pollOnRequestError(error) ==
    /\ dispose
    /\ log' = Invoke(log, "onError", error)
    /\ rethrows' = IF Throws("onError")
                   THEN Append(rethrows, ObserverError("onError"))
                   ELSE rethrows
    /\ UNCHANGED timeout

\* promise.then(payload => { onRequestSuccess(payload) }, onRequestError).catch(rethrow)
PollReact ==
    /\ phase = "poll"
    /\ promise.state \in {"fulfilled", "rejected"}
    /\ ~promise.reacted
    /\ promise' = [promise EXCEPT !.reacted = TRUE]
    /\ inflight' = inflight - 1
    /\ IF promise.state = "fulfilled"
       THEN pollOnRequestSuccess(promise.value)
       ELSE pollOnRequestError(promise.value)
    /\ UNCHANGED <<subscribe, phase, operation, cacheConfig, observer, response,
                   result, fetchPromise, fetchArgs, raised, handle, disposeCalls,
                   emitted>>

\* The timer of a poll that repeats like setInterval: it stays set when it fires.
FireTimerInterval(id, resp) ==
    /\ phase = "poll"
    /\ id \in timers
    /\ Len(fetchArgs) < MaxFetch
    /\ timers' = timers
    /\ poll(operation, resp, "timer")
    /\ UNCHANGED <<subscribe, phase, operation, cacheConfig, observer, result,
                   isDisposed, timeout, rethrows, log, handle, disposeCalls, emitted>>

\* The timer set by setTimeout(poll, pollInterval) fires.
FireTimer(id, resp) ==
    /\ phase = "poll"
    /\ id \in timers
    /\ Len(fetchArgs) < MaxFetch
    /\ timers' = timers \ {id}
    /\ poll(operation, resp, "timer")
    /\ UNCHANGED <<subscribe, phase, operation, cacheConfig, observer, result,
                   isDisposed, timeout, rethrows, log, handle, disposeCalls, emitted>>

\* dispose() of the handle of a polling stream, called by the caller.
DisposePoll ==
    /\ phase = "poll"
    /\ handle
    /\ disposeCalls < MaxDispose
    /\ disposeCalls' = disposeCalls + 1
    /\ dispose
    /\ UNCHANGED <<subscribe, phase, operation, cacheConfig, observer, response,
                   result, fetchPromise, promise, timeout, rethrows, fetchArgs,
                   log, raised, handle, emitted, inflight>>

\* function rethrow(err): the zero-delay timer throws err.
Rethrow ==
    /\ rethrows # <<>>
    /\ raised' = Raise("setTimeout", Head(rethrows))
    /\ rethrows' = Tail(rethrows)
    /\ UNCHANGED <<subscribe, phase, operation, cacheConfig, observer, response,
                   result, fetchPromise, promise, isDisposed, timeout, timers,
                   fetchArgs, log, handle, disposeCalls, emitted, inflight>>

----------------------------------------------------------------------------
\* requestStream, the subscription driver.

\* The wrapper without its try/catch: the failure goes back to subscribe.
subscriptionOnNextNoCatch(payload) ==
    LET r == normalizePayload(operation, variables, payload)
    IN  IF r.threw
        THEN /\ log' = log
             /\ raised' = Raise("subscribe", r.error)
        ELSE /\ log' = Invoke(log, "onNext", <<r.value>>)
             /\ raised' = IF Throws("onNext")
                          THEN Raise("subscribe", ObserverError("onNext"))
                          ELSE raised

\* onNext: payload => {...}, the wrapper handed to subscribe
subscriptionOnNext(payload) ==
    LET r == normalizePayload(operation, variables, payload)
    IN  IF r.threw
        THEN /\ log' = Invoke(log, "onError", <<r.error>>)
             /\ raised' = IF Throws("onError")
                          THEN Raise("subscribe", ObserverError("onError"))
                          ELSE raised
        ELSE /\ log' = Invoke(log, "onNext", <<r.value>>)
             /\ raised' = IF Throws("onNext")
                          THEN Raise("subscribe", ObserverError("onNext"))
                          ELSE raised

\* The subscribe function pushes a payload to the onNext it was given.
SubscriptionNext(payload) ==
    /\ phase = "subscription"
    /\ Len(emitted) < MaxEmit
    /\ emitted' = Append(emitted, payload)
    /\ subscriptionOnNext(payload)
    /\ UNCHANGED <<subscribe, phase, operation, cacheConfig, observer, response,
                   result, fetchPromise, promise, isDisposed, timeout, timers,
                   rethrows, fetchArgs, handle, disposeCalls, inflight>>

\* The subscription branch without its invariant on subscribe.
RequestStreamSubscriptionUnchecked ==
    /\ phase' = "subscription"
    /\ handle' = TRUE
    /\ UNCHANGED <<fetchArgs, response, promise, fetchPromise, isDisposed,
                   timeout, timers, raised, inflight, log>>

\* requestStream: if (operation.query.operation === 'subscription') {...}
RequestStreamSubscription ==
    IF subscribe
    THEN /\ phase' = "subscription"
         /\ handle' = TRUE
         /\ UNCHANGED <<fetchArgs, response, promise, fetchPromise, isDisposed,
                        timeout, timers, raised, inflight, log>>
    ELSE /\ raised' = Raise("requestStream",
                 Invariant("The default network layer does not support GraphQL Subscriptions"))
         /\ phase' = "threw"
         /\ handle' = FALSE
         /\ UNCHANGED <<fetchArgs, response, promise, fetchPromise, isDisposed,
                        timeout, timers, inflight, log>>

----------------------------------------------------------------------------
\* const pollInterval = cacheConfig && cacheConfig.poll
PollInterval(cc) == IF cc = <<>> THEN <<>> ELSE cc[1].poll

\* requestStream that looks at the poll interval before the operation kind.
RequestStreamPollFirst(k, cc, obs, resp) ==
    /\ phase = "idle"
    /\ operation' = Operation(k)
    /\ cacheConfig' = cc
    /\ observer' = obs
    /\ IF PollInterval(cc) # <<>>
       THEN doFetchWithPolling(Operation(k), PollInterval(cc)[1], resp)
       ELSE IF Operation(k).query.operation = "subscription"
       THEN RequestStreamSubscription
       ELSE RequestStreamOneShot(Operation(k), cc, resp)
    /\ UNCHANGED <<subscribe, result, rethrows, disposeCalls, emitted>>

\* requestStream(operation, variables, cacheConfig, observer)
RequestStream(k, cc, obs, resp) ==
    /\ phase = "idle"
    /\ operation' = Operation(k)
    /\ cacheConfig' = cc
    /\ observer' = obs
    /\ IF Operation(k).query.operation = "subscription"
       THEN RequestStreamSubscription
       ELSE IF PollInterval(cc) # <<>>
       THEN doFetchWithPolling(Operation(k), PollInterval(cc)[1], resp)
       ELSE RequestStreamOneShot(Operation(k), cc, resp)
    /\ UNCHANGED <<subscribe, result, rethrows, disposeCalls, emitted>>

Next ==
    \/ \E k \in OperationKinds, cc \in CacheConfigs, resp \in Responses(1) :
            Request(k, cc, resp)
    \/ \E k \in OperationKinds, cc \in CacheConfigs, obs \in Observers,
          resp \in Responses(1) :
            RequestStream(k, cc, obs, resp)
    \/ \E s \in Settlements(Len(fetchArgs)) : SettleFetchPromise(s)
    \/ ThenOnSuccess
    \/ OneShotReact
    \/ DisposeOneShot
    \/ PollReact
    \/ \E id \in timers, resp \in Responses(Len(fetchArgs) + 1) : FireTimer(id, resp)
    \/ DisposePoll
    \/ Rethrow
    \/ \E p \in {<<>>} \cup {<<q>> : q \in RawPayloads(Len(emitted) + 1)} :
            SubscriptionNext(p)

Spec == Init /\ [][Next]_vars

\* The event loop runs every promise reaction and fires every timer that stays
\* set, and the fetch function settles the promise it returned.
FairSpec ==
    /\ Init /\ [][Next]_vars
    /\ WF_vars(\E s \in Settlements(Len(fetchArgs)) : SettleFetchPromise(s))
    /\ WF_vars(ThenOnSuccess)
    /\ WF_vars(OneShotReact)
    /\ WF_vars(PollReact)
    /\ WF_vars(\E id \in timers, resp \in Responses(Len(fetchArgs) + 1) :
                   FireTimer(id, resp))
    /\ WF_vars(Rethrow)

----------------------------------------------------------------------------
\* What the claims are stated with.

Entries(cb) == {i \in 1..Len(log) : log[i].cb = cb}

Count(cb) == Cardinality(Entries(cb))

Streaming == phase \in {"oneshot", "poll", "subscription", "threw"}

\* The payload normalizes: normalizePayload returns.
Normalizes(payload) == ~normalizePayload(operation, variables, payload).threw

----------------------------------------------------------------------------
\* C1: once dispose() has been called on the handle of a one-shot stream, no
\* handler of the observer is invoked any more, whatever fetch returned and
\* however its promise settles afterwards.
C1_OneShotSilentAfterDispose ==
    [][(phase = "oneshot" /\ disposeCalls > 0) => log' = log]_vars

\* C1 witness: a one-shot stream disposed while its promise was pending; the
\* promise then resolved with a payload that normalizes, the reaction ran, and
\* the observer, whose handlers are all there, heard nothing.
C1_Witness ==
    /\ phase = "oneshot"
    /\ response.kind = "promise"
    /\ disposeCalls > 0
    /\ promise.state = "fulfilled"
    /\ promise.reacted
    /\ Normalizes(promise.value)
    /\ observer.onNext = "returns"
    /\ observer.onCompleted = "returns"
    /\ log = <<>>

\* C2: once dispose() has been called on the handle of a polling stream,
\* neither onNext nor onError is invoked any more.
C2_PollSilentAfterDispose ==
    [][(phase = "poll" /\ disposeCalls > 0) => log' = log]_vars

\* C3: once dispose() has been called on the handle of a polling stream, no
\* timer is set and fetch is not called again.
C3_PollStoppedAfterDispose ==
    [][(phase = "poll" /\ disposeCalls > 0)
          => (timers' \subseteq timers /\ fetchArgs' = fetchArgs)]_vars

\* C4: a one-shot stream whose fetch returned an 'error' envelope and whose
\* handle is not disposed has, once the reaction has run, invoked onError once
\* with that error and nothing else.
C4_SyncErrorReachesOnError ==
    (/\ phase = "oneshot"
     /\ response.kind = "error"
     /\ promise.reacted
     /\ ~isDisposed
     /\ observer.onError # "absent")
    => /\ Len(log) = 1
       /\ log[1].cb = "onError"
       /\ log[1].arg = <<response.error>>

\* C5: when a tick of a polling stream fails with the error E of fetch (an
\* 'error' envelope or a rejected promise), then once the reaction has run
\* onError has been invoked exactly once, with E and as the last handler, the
\* handle is disposed, no timer is pending and fetch is not called again.
C5_PollErrorStops ==
    (/\ phase = "poll"
     /\ promise.state = "rejected"
     /\ promise.reacted
     /\ promise.value[1].name = "FetchError")
    => /\ isDisposed
       /\ timers = {}
       /\ inflight = 0
       /\ Len(fetchArgs) = promise.value[1].id
       /\ observer.onError # "absent" =>
             /\ Count("onError") = 1
             /\ log[Len(log)].cb = "onError"
             /\ log[Len(log)].arg = promise.value

\* C5 witness: the second tick of a poll nobody disposed failed with the error
\* of fetch, and onError heard it after the onNext of the first tick.
C5_Witness ==
    /\ phase = "poll"
    /\ promise.state = "rejected"
    /\ promise.reacted
    /\ promise.value[1].name = "FetchError"
    /\ disposeCalls = 0
    /\ isDisposed
    /\ Len(fetchArgs) = 2
    /\ Count("onNext") = 1
    /\ Count("onError") = 1

\* C6: the ticks of a poll are strictly sequential: at most one request is
\* in flight, a pending timer never coexists with a request in flight, a
\* timer is pending only once the result of the last tick has been passed to
\* onNext, and onNext hears the results in tick order, each at its own tick.
C6_PollSequential ==
    phase = "poll" =>
        /\ inflight <= 1
        /\ Cardinality(timers) <= 1
        /\ inflight > 0 => timers = {}
        /\ timers # {} =>
              /\ promise.state = "fulfilled"
              /\ promise.reacted
              /\ observer.onNext # "absent" =>
                    /\ log # <<>>
                    /\ log[Len(log)].cb = "onNext"
                    /\ log[Len(log)].tick = Len(fetchArgs)
                    /\ log[Len(log)].arg = promise.value
        /\ \A i, j \in Entries("onNext") : i < j => log[i].tick < log[j].tick
        /\ \A i \in Entries("onNext") :
              log[i].arg # <<>> => log[i].arg[1].source.id = log[i].tick

\* C6 witness: two ticks done, both results passed to onNext, and the timer
\* of the third tick pending.
C6_Witness ==
    /\ phase = "poll"
    /\ Len(fetchArgs) = 2
    /\ Count("onNext") = 2
    /\ timers # {}
    /\ inflight = 0

\* C7: in a one-shot stream each handler is invoked at most once, onCompleted
\* only after onNext, onError excludes onNext and onCompleted, and a payload
\* that does not normalize leads to onError alone.
C7_OneShotOrder ==
    phase = "oneshot" =>
        /\ Count("onNext") <= 1
        /\ Count("onCompleted") <= 1
        /\ Count("onError") <= 1
        /\ \A i \in Entries("onCompleted") :
              observer.onNext # "absent" => \E j \in Entries("onNext") : j < i
        /\ Count("onError") = 1 => (Count("onNext") = 0 /\ Count("onCompleted") = 0)
        /\ (promise.state = "fulfilled" /\ promise.reacted /\ ~Normalizes(promise.value))
              => (Count("onNext") = 0 /\ Count("onCompleted") = 0)

\* C7 witness: a one-shot stream that delivered: onNext, then onCompleted.
C7_Witness ==
    /\ phase = "oneshot"
    /\ Len(log) = 2
    /\ log[1].cb = "onNext"
    /\ log[2].cb = "onCompleted"

\* C8: requestStream of a subscription on a layer created without subscribe
\* throws at the call: fetch is not called, no timer is set, no handler is
\* invoked and no handle is returned.
C8_SubscriptionNeedsSubscribe ==
    (Streaming /\ operation.query.operation = "subscription" /\ ~subscribe)
    => /\ phase = "threw"
       /\ Len(raised) = 1
       /\ raised[1].where = "requestStream"
       /\ raised[1].error.name = "Invariant Violation"
       /\ fetchArgs = <<>>
       /\ timers = {}
       /\ log = <<>>
       /\ ~handle

\* C8 witness: that call was made and threw.
C8_Witness ==
    /\ phase = "threw"
    /\ operation.query.operation = "subscription"
    /\ ~subscribe
    /\ raised # <<>>

\* C9: requestStream of a non-subscription operation with a poll interval
\* that is zero or negative throws at the call: fetch is not called, no timer
\* is set and no handler is invoked.
C9_PollIntervalPositive ==
    (/\ Streaming
     /\ operation.query.operation # "subscription"
     /\ PollInterval(cacheConfig) # <<>>
     /\ PollInterval(cacheConfig)[1] <= 0)
    => /\ phase = "threw"
       /\ Len(raised) = 1
       /\ raised[1].where = "requestStream"
       /\ raised[1].error.name = "Invariant Violation"
       /\ fetchArgs = <<>>
       /\ timers = {}
       /\ log = <<>>
       /\ ~handle

\* C9 witness: that call was made with a poll interval of 0 and threw.
C9_Witness ==
    /\ phase = "threw"
    /\ operation.query.operation = "query"
    /\ PollInterval(cacheConfig) = <<0>>
    /\ raised # <<>>

\* C10, as amended: request() calls fetch once, with its cacheConfig, and
\* keeps the variant whenever it returns.  A 'data' response with a payload
\* that normalizes gives a 'data' envelope with the normalized payload, one
\* with null data gives 'data' with null, one whose payload does not
\* normalize makes request() throw the failure.  An 'error' response is
\* returned as it is.  A 'promise' response gives a 'promise' envelope whose
\* promise settles only once the original has: fulfilled with the normalized
\* payload when the original is fulfilled with a payload that normalizes,
\* rejected with the failure when that payload does not normalize, rejected
\* with the same error when the original is rejected.
C10_RequestKeepsVariant ==
    phase = "request" =>
        /\ fetchArgs = <<cacheConfig>>
        /\ response.kind = "data" =>
              IF response.data = <<>>
              THEN result = Return([kind |-> "data", data |-> <<>>])
              ELSE IF Normalizes(response.data)
              THEN /\ ~result.threw
                   /\ result.value.kind = "data"
                   /\ result.value.data =
                         <<normalizePayload(operation, variables, response.data).value>>
              ELSE /\ result.threw
                   /\ result.error =
                         normalizePayload(operation, variables, response.data).error
        /\ response.kind = "error" => result = Return(response)
        /\ response.kind = "promise" =>
              /\ result = Return([kind |-> "promise"])
              /\ promise.state \in {"pending", "fulfilled", "rejected"}
              /\ promise.state # "pending" => fetchPromise.state # "pending"
              /\ (promise.state # "pending" /\ fetchPromise.state = "rejected")
                    => (promise.state = "rejected" /\ promise.value = fetchPromise.value)
              /\ (promise.state # "pending" /\ fetchPromise.state = "fulfilled")
                    => IF Normalizes(fetchPromise.value)
                       THEN /\ promise.state = "fulfilled"
                            /\ promise.value =
                                  <<normalizePayload(operation, variables,
                                                     fetchPromise.value).value>>
                       ELSE /\ promise.state = "rejected"
                            /\ promise.value =
                                  <<normalizePayload(operation, variables,
                                                     fetchPromise.value).error>>

\* C10 witness: request() returned a 'promise' envelope, the original promise
\* resolved with a payload that normalizes and the returned one is fulfilled.
C10_Witness ==
    /\ phase = "request"
    /\ response.kind = "promise"
    /\ fetchPromise.state = "fulfilled"
    /\ Normalizes(fetchPromise.value)
    /\ promise.state = "fulfilled"

\* C10 as first stated: every 'data' response gives a 'data' envelope that
\* holds a normalized payload, and the promise of a 'promise' envelope is
\* fulfilled whenever the original is.
C10_AsStated ==
    phase = "request" =>
        /\ Len(fetchArgs) = 1
        /\ response.kind = "data" =>
              /\ ~result.threw
              /\ result.value.kind = "data"
              /\ result.value.data # <<>>
        /\ response.kind = "error" => result = Return(response)
        /\ response.kind = "promise" =>
              /\ result = Return([kind |-> "promise"])
              /\ promise.state # "pending" => fetchPromise.state # "pending"
              /\ (promise.state # "pending" /\ fetchPromise.state = "rejected")
                    => (promise.state = "rejected" /\ promise.value = fetchPromise.value)
              /\ (promise.state # "pending" /\ fetchPromise.state = "fulfilled")
                    => promise.state = "fulfilled"

\* The error a payload without data must end in: named after the layer, with
\* the messages of the server (or the marker that there are none) and with
\* the raw errors, the operation and the variables attached.
IsNoDataError(e, payload) ==
    /\ e.name = "RelayNetwork"
    /\ e.operationName = operation.name
    /\ e.messages = IF payload.errors = <<>> THEN <<"(No errors)">>
                    ELSE payload.errors[1]
    /\ e.source.errors = payload.errors
    /\ e.source.operation = operation
    /\ e.source.variables = variables

\* C11: request() never succeeds on a payload that carries no data: for a
\* 'data' response it throws the synthesized error, for a 'promise' response
\* the promise it returned is rejected with it once settled; the error lists
\* the server's messages (or the no-errors marker) and has the raw errors,
\* the operation and the variables attached.
C11_NoDataFails ==
    phase = "request" =>
        /\ (/\ response.kind = "data"
            /\ response.data # <<>>
            /\ response.data[1].data = <<>>)
           => /\ result.threw
              /\ IsNoDataError(result.error, response.data[1])
        /\ (/\ response.kind = "promise"
            /\ fetchPromise.state = "fulfilled"
            /\ fetchPromise.value # <<>>
            /\ fetchPromise.value[1].data = <<>>)
           => /\ promise.state \in {"pending", "rejected"}
              /\ promise.state = "rejected" =>
                    /\ Len(promise.value) = 1
                    /\ IsNoDataError(promise.value[1], fetchPromise.value[1])

\* C11 witness: the promise of fetch resolved with {errors: [{message:
\* "boom"}]} and no data, and the promise request() returned is rejected.
C11_Witness ==
    /\ phase = "request"
    /\ response.kind = "promise"
    /\ fetchPromise.state = "fulfilled"
    /\ fetchPromise.value = <<[data |-> <<>>, errors |-> << <<"boom">> >>]>>
    /\ promise.state = "rejected"

\* C12: when fetch returns a response whose kind is none of data, error and
\* promise, the call fails with an invariant violation: request() throws it,
\* and requestStream (one-shot or polling) lets it surface instead of going
\* on with a handle that will never deliver anything.
C12_UnknownKindFailsLoudly ==
    (phase # "idle" /\ response.kind \notin {"none", "data", "error", "promise"})
    => IF phase = "request"
       THEN result.threw /\ result.error.name = "Invariant Violation"
       ELSE \E i \in 1..Len(raised) : raised[i].error.name = "Invariant Violation"

\* C13: dispose() is idempotent, for one-shot and for polling handles: the
\* disposed flag never goes back to false, and a call of dispose() on a
\* handle that is disposed already (by an earlier call or by the poll's own
\* error) changes nothing: no timer is cleared, nothing is raised, no
\* handler is invoked.
C13_DisposeIdempotent ==
    [][/\ isDisposed => isDisposed'
       /\ (disposeCalls' # disposeCalls /\ isDisposed) =>
             UNCHANGED <<subscribe, phase, operation, cacheConfig, observer,
                         response, result, fetchPromise, promise, isDisposed,
                         timeout, timers, rethrows, fetchArgs, log, raised,
                         handle, emitted, inflight>>]_vars

\* C13 witness: a poll disposed while its first request was in flight, whose
\* result then set a timer, and disposed a second time: the timer is still
\* pending.
C13_Witness ==
    /\ phase = "poll"
    /\ disposeCalls = 2
    /\ isDisposed
    /\ timers # {}

\* C14: every tick of a poll calls fetch with the caller's cacheConfig with
\* force: true merged into it: force is true and the caller's other fields
\* (here poll) are what the caller gave.
C14_PollMergesForce ==
    phase = "poll" =>
        \A i \in 1..Len(fetchArgs) :
            /\ fetchArgs[i] # <<>>
            /\ fetchArgs[i][1].force = <<TRUE>>
            /\ fetchArgs[i][1].poll = cacheConfig[1].poll

\* A poll that is over or was interfered with: the caller disposed it, a tick
\* failed, or an exception surfaced.
PollEnded ==
    \/ disposeCalls > 0
    \/ isDisposed
    \/ promise.state = "rejected"
    \/ raised # <<>>
    \/ rethrows # <<>>

\* C15: a poll stream does not terminate.  Under fair scheduling, once tick n
\* has been delivered to an onNext that returns, tick n + 1 is fetched and
\* delivered to onNext too, unless the caller disposes the handle or a tick
\* fails (n ranges over the ticks the bound on fetch calls leaves a successor
\* to); and the poller never invokes onCompleted, in any execution.
C15_PollKeepsGoing ==
    /\ [](phase = "poll" => Count("onCompleted") = 0)
    /\ \A n \in 1..(MaxFetch - 1) :
          (/\ phase = "poll"
           /\ observer.onNext = "returns"
           /\ Count("onNext") = n
           /\ Len(fetchArgs) = n)
          ~> (Count("onNext") = n + 1 \/ PollEnded)

\* C15 witness: a poll nobody disposed, with an observer whose handlers are
\* all there, delivered its second tick and set the timer of the third.
C15_Witness ==
    /\ phase = "poll"
    /\ observer = [onNext |-> "returns", onError |-> "returns", onCompleted |-> "returns"]
    /\ ~PollEnded
    /\ Len(fetchArgs) = 2
    /\ Len(log) = 2
    /\ log[2].cb = "onNext"
    /\ log[2].tick = 2
    /\ timers = {2}

\* requestStream was called for a poll: not a subscription, and a positive
\* poll interval.
IsPollCall ==
    /\ Streaming
    /\ operation.query.operation # "subscription"
    /\ PollInterval(cacheConfig) # <<>>
    /\ PollInterval(cacheConfig)[1] > 0

\* C16: when the payload of a poll tick does not normalize, whether it came
\* in a 'data' envelope or through the promise, the failure does not escape
\* from requestStream or from the timer callback; once the tick is over the
\* handle is disposed, no timer is pending and onError was invoked once.
C16_PollNormalizationFailureReported ==
    (/\ IsPollCall
     /\ \/ /\ response.kind = "data"
           /\ response.data # <<>>
           /\ ~Normalizes(response.data)
        \/ /\ response.kind = "promise"
           /\ fetchPromise.state = "fulfilled"
           /\ ~Normalizes(fetchPromise.value)
           /\ promise.reacted)
    => /\ \A i \in 1..Len(raised) : raised[i].where \notin {"requestStream", "timer"}
       /\ phase = "poll"
       /\ inflight = 0 =>
             /\ isDisposed
             /\ timers = {}
             /\ observer.onError # "absent" => Count("onError") = 1

\* C17: in a subscription every payload the subscribe function pushes is
\* normalized first.  With an observer that has onNext and onError, the i-th
\* handler invoked is onNext with the normalized result when the i-th
\* payload normalizes, and onError with the failure when it does not; and
\* whatever the observer, the only exceptions that go back to the subscribe
\* function are those the observer's own handlers throw.
C17_SubscriptionNormalizes ==
    phase = "subscription" =>
        /\ \A i \in 1..Len(raised) :
              /\ raised[i].where = "subscribe"
              /\ raised[i].error.name = "ObserverError"
        /\ Count("onNext") <= Cardinality({i \in 1..Len(emitted) : Normalizes(emitted[i])})
        /\ Count("onError") <= Cardinality({i \in 1..Len(emitted) : ~Normalizes(emitted[i])})
        /\ (observer.onNext # "absent" /\ observer.onError # "absent") =>
              /\ Len(log) = Len(emitted)
              /\ \A i \in 1..Len(emitted) :
                    IF Normalizes(emitted[i])
                    THEN /\ log[i].cb = "onNext"
                         /\ log[i].arg =
                               <<normalizePayload(operation, variables, emitted[i]).value>>
                    ELSE /\ log[i].cb = "onError"
                         /\ log[i].arg =
                               <<normalizePayload(operation, variables, emitted[i]).error>>

\* C17 witness: a payload without data, then one that normalizes: onError,
\* then onNext, and nothing went back to the subscribe function.
C17_Witness ==
    /\ phase = "subscription"
    /\ Len(emitted) = 2
    /\ ~Normalizes(emitted[1])
    /\ Normalizes(emitted[2])
    /\ Len(log) = 2
    /\ log[1].cb = "onError"
    /\ log[2].cb = "onNext"
    /\ raised = <<>>

\* C18: in a subscription, once the wrapper has invoked onError for a
\* payload that did not normalize, no later payload leads to onNext or
\* onError: an onError is the last handler invoked.
C18_SubscriptionSilentAfterError ==
    phase = "subscription" =>
        \A i \in Entries("onError") : i = Len(log)

\* C19: requestStream picks one driver, the first that matches.  A
\* subscription never calls fetch and sets no timer, whatever its
\* cacheConfig; otherwise a cacheConfig with a poll interval goes to the
\* poller, all of whose calls of fetch are the ticks' (force: true);
\* otherwise fetch is called once, with the caller's cacheConfig, and no
\* timer is ever set.
C19_OneDriver ==
    Streaming =>
        IF operation.query.operation = "subscription"
        THEN /\ phase \in {"subscription", "threw"}
             /\ fetchArgs = <<>>
             /\ timers = {}
             /\ inflight = 0
        ELSE IF PollInterval(cacheConfig) # <<>>
        THEN /\ phase \in {"poll", "threw"}
             /\ emitted = <<>>
             /\ \A i \in 1..Len(fetchArgs) : fetchArgs[i] = PollCacheConfig
        ELSE /\ phase = "oneshot"
             /\ emitted = <<>>
             /\ fetchArgs = <<cacheConfig>>
             /\ timers = {}

\* C19 witness: a subscription whose cacheConfig asks for polling was handed
\* to the subscribe function, which pushed a payload; fetch was not called.
C19_Witness ==
    /\ phase = "subscription"
    /\ PollInterval(cacheConfig) = <<1>>
    /\ Len(emitted) = 1
    /\ fetchArgs = <<>>

\* The exceptions of the observer's handlers that surfaced.
ObserverRaised == {i \in 1..Len(raised) : raised[i].error.name = "ObserverError"}

\* The handler invocations that threw.
Thrown == {i \in 1..Len(log) : observer[log[i].cb] = "throws"}

\* C20: in a poll, an exception thrown by the observer's onNext or onError
\* surfaces only from the zero-delay timer of rethrow, once for each handler
\* call that threw (counting those whose timer is still pending); and after
\* an onNext that threw, no timer is set and fetch is not called again,
\* while the handle is not marked disposed unless the caller disposed it.
C20_ObserverExceptionRethrown ==
    phase = "poll" =>
        /\ \A i \in ObserverRaised : raised[i].where = "setTimeout"
        /\ Cardinality(ObserverRaised) + Len(rethrows) = Cardinality(Thrown)
        /\ Cardinality(Thrown) <= 1
        /\ (observer.onNext = "throws" /\ Count("onNext") > 0) =>
              /\ Count("onNext") = 1
              /\ timers = {}
              /\ inflight = 0
              /\ Len(fetchArgs) = log[1].tick
              /\ disposeCalls = 0 => ~isDisposed

\* C20 witness: the onNext of the first tick threw, the exception was thrown
\* again by the zero-delay timer, and the poll stands still, not disposed.
C20_Witness ==
    /\ phase = "poll"
    /\ observer.onNext = "throws"
    /\ Count("onNext") = 1
    /\ rethrows = <<>>
    /\ raised = <<[where |-> "setTimeout", error |-> ObserverError("onNext")]>>
    /\ ~isDisposed
    /\ timers = {}

\* C21: in a one-shot or polling stream no handler of the observer is invoked
\* by the call of requestStream itself, also when fetch answers synchronously
\* with data or an error: the call leaves the observer unheard, and every
\* later invocation is made by the reaction job of a settled promise, after
\* the handle was returned. So a one-shot stream disposed before anything was
\* delivered never invokes a handler.
C21_DeliveryIsAsynchronous ==
    [][ /\ (phase = "idle" /\ phase' \in {"oneshot", "poll", "threw"}) =>
              log' = <<>>
        /\ (phase \in {"oneshot", "poll"} /\ log' # log) =>
              /\ handle
              /\ promise.state \in {"fulfilled", "rejected"}
              /\ ~promise.reacted
              /\ promise'.reacted
        /\ (phase = "oneshot" /\ isDisposed /\ log = <<>>) => log' = <<>>
      ]_vars

\* C21 witness: fetch answered a one-shot stream synchronously with a payload
\* that normalizes, the caller disposed the handle, the reaction job of the
\* resolved promise ran, and the observer, whose handlers are all there, heard
\* nothing.
C21_Witness ==
    /\ phase = "oneshot"
    /\ response.kind = "data"
    /\ Normalizes(response.data)
    /\ handle
    /\ disposeCalls = 1
    /\ promise.reacted
    /\ observer.onNext = "returns"
    /\ observer.onCompleted = "returns"
    /\ observer.onError = "returns"
    /\ log = <<>>

====
